---- MODULE Spec2Model ----
(***************************************************************************)
(* A state-machine model of src/src/pkg/runtime/malloc.go: the allocator   *)
(* entry point gomallocgc (zero-size, tiny, size-class and large paths,    *)
(* the GC bitmap writer, the sampling step and the allocation-triggered    *)
(* collection check) and the collection controller gogc / GC.              *)
(*                                                                         *)
(* Execution contexts (an M with its mcache) are the elements of Ctx.  A   *)
(* context's position in the code is pc[c]; the labels are named after     *)
(* the function and the source line the context is about to execute.       *)
(***************************************************************************)
EXTENDS Integers, Sequences, FiniteSets, TLC

\* ------------------------------------------------------------------ bounds
NCtx == 2
MaxCalls == 2
MaxAllocs == 3
MaxPages == 6
SpanObjs == 2
UintptrBits == 20

\* --------------------------------------------------------------- constants
flagNoScan == 1
flagNoZero == 2
maxTinySize == 16
tinySizeClass == 2
maxSmallSize == 32768
kindFunc == 19
kindPtr == 22
kindMask == 63
pageSize == 8192
ptrSize == 8
wordsPerBitmapWord == 16
bitsDead == 0
bitsScalar == 1
bitsPointer == 2
bitBoundary == 1
maxGCMask == 0
gcpercentUnknown == -2
arena_start == 1048576
zeroObject == 4096
nil == 0

Ctx == 1..NCtx
NoCtx == 0

\* ------------------------------------------------------------------- state
VARIABLES
    pc,                 \* pc[c]: where context c is in the code
    locks,              \* mp.locks
    mallocing,          \* mp.mallocing
    gcing,              \* mp.gcing
    frame,              \* locals of the running gomallocgc / gogc call
    tiny,               \* c.tiny
    tinysize,           \* c.tinysize
    alloc,              \* c.alloc[sizeclass].freelist
    sref,               \* c.alloc[sizeclass].ref
    local_cachealloc,   \* c.local_cachealloc
    next_sample,        \* c.next_sample
    bitmap,             \* GC bitmap: heap word offset -> 4-bit field
    mem,                \* heap memory: offsets of the words that are not 0
    unrolled,           \* types whose GC program has been unrolled
    pagesUsed,          \* pages handed out by the heap so far
    heap_alloc,         \* memstats.heap_alloc
    next_gc,            \* memstats.next_gc
    enablegc,           \* memstats.enablegc
    panicking,          \* panicking
    gcpercent,          \* gcpercent
    worldsema,          \* worldsema
    heaplock,           \* owner of mheap_.lock, NoCtx when free
    stopped,            \* context that stopped the world, NoCtx when running
    pools,              \* whether the transient pools hold anything
    aborted,            \* gothrow happened
    env,                \* configuration: GOGC, debug.gctrace, MemProfileRate
    obs                 \* observations of the calls made so far (history)

mvars == <<locks, mallocing, gcing>>
cachevars == <<tiny, tinysize, alloc, sref, local_cachealloc, next_sample>>
heapvars == <<bitmap, mem, unrolled, pagesUsed>>
statvars == <<heap_alloc, next_gc>>
gcvars == <<gcpercent, worldsema, heaplock, stopped, pools>>
cfgvars == <<enablegc, panicking, env>>
vars == <<pc, frame, mvars, cachevars, heapvars, statvars, gcvars, cfgvars,
          aborted, obs>>

\* ------------------------------------------------------------ size classes
\* class_to_size (the table InitSizes builds); class 0 is unused.
class_to_size ==
    <<8, 16, 32, 48, 64, 80, 96, 112, 128, 144, 160, 176, 192, 208, 224, 240,
      256, 288, 320, 352, 384, 416, 448, 480, 512, 576, 640, 704, 768, 896,
      1024, 1152, 1280, 1408, 1536, 1664, 2048, 2304, 2560, 2816, 3072, 3328,
      4096, 4608, 5376, 6144, 6400, 6656, 6912, 8192, 8448, 8704, 9472, 10496,
      12288, 13568, 14080, 16384, 16640, 17664, 20480, 21248, 24576, 24832,
      28672, 32768>>

Classes == 1..Len(class_to_size)

\* The smallest class whose object size is >= n.
ClassFor(n) ==
    CHOOSE k \in Classes :
        /\ class_to_size[k] >= n
        /\ \A j \in Classes : class_to_size[j] >= n => j >= k

size_to_class8(i) == ClassFor(i * 8)
size_to_class128(i) == ClassFor(1024 + i * 128)

\* lines 149-155: the size class gomallocgc selects for a small size
SizeClass(size) ==
    IF size <= 1024 - 8
    THEN size_to_class8((size + 7) \div 8)
    ELSE size_to_class128((size - 1024 + 127) \div 128)

\* line 155: the object size of the class selected for a small size
SmallSize(size) == class_to_size[SizeClass(size)]

\* uintptr arithmetic wraps at 2^UintptrBits.
WordMod == 2 ^ UintptrBits
Wrap(n) == n % WordMod

\* The sizes requested of the bitmap writer.
BitSizes == {5, 8, 16, 20, 24, 32, 40, 48, 272, 544}

\* Faulty variant of goroundupsize: the overflow test of line 356 is missing.
goroundupsize_nowrapcheck(size) ==
    IF size < maxSmallSize
    THEN IF size <= 1024 - 8
         THEN class_to_size[size_to_class8((size + 7) \div 8)]
         ELSE class_to_size[size_to_class128((size - 1024 + 127) \div 128)]
    ELSE Wrap(size + pageSize - 1) - (Wrap(size + pageSize - 1) % pageSize)

\* lines 349-360
goroundupsize(size) ==
    IF size < maxSmallSize
    THEN IF size <= 1024 - 8
         THEN class_to_size[size_to_class8((size + 7) \div 8)]
         ELSE class_to_size[size_to_class128((size - 1024 + 127) \div 128)]
    ELSE IF Wrap(size + pageSize) < size
    THEN size
    ELSE Wrap(size + pageSize - 1) - (Wrap(size + pageSize - 1) % pageSize)

\* The requests the contexts make, and the classes they select: a cache's
\* alloc array is kept for these classes only.
Sizes == {0, 1, 3, 5, 8, 12, 16, 24, 32, 40, 32769}
UsedClasses ==
    {tinySizeClass} \cup
    {SizeClass(n) : n \in {n \in Sizes \cup BitSizes : n > 0 /\ n <= maxSmallSize}}

\* roundup(p, n) for a power of two n
roundup(p, n) == ((p + n - 1) \div n) * n

\* -------------------------------------------------------- type descriptors
\* A *_type as gomallocgc reads it: size is typ.size, gcprog is
\* typ.kind&kindGCProg != 0, prog is typ.gc[1] != 0 of a GC-program type, and
\* ptrs is the type's layout, one 2-bit classification per word.  "nil" is
\* the nil *_type, "raw" a type compiled without a mask (gc[0] = gc[1] = 0).
TypeTable ==
    [ nil  |-> [size |-> 0,  gcprog |-> FALSE, prog |-> FALSE, ptrs |-> <<>>],
      raw  |-> [size |-> 16, gcprog |-> FALSE, prog |-> FALSE, ptrs |-> <<>>],
      P1   |-> [size |-> 8,  gcprog |-> FALSE, prog |-> FALSE,
                ptrs |-> <<bitsPointer>>],
      SP   |-> [size |-> 16, gcprog |-> FALSE, prog |-> FALSE,
                ptrs |-> <<bitsScalar, bitsPointer>>],
      PSP  |-> [size |-> 24, gcprog |-> FALSE, prog |-> FALSE,
                ptrs |-> <<bitsPointer, bitsScalar, bitsPointer>>],
      GP   |-> [size |-> 32, gcprog |-> TRUE,  prog |-> TRUE,
                ptrs |-> <<bitsPointer, bitsScalar, bitsScalar, bitsPointer>>],
      GU   |-> [size |-> 32, gcprog |-> TRUE,  prog |-> FALSE,
                ptrs |-> <<bitsScalar, bitsPointer, bitsPointer, bitsScalar>>] ]

TypeNames == DOMAIN TypeTable

\* The pointer mask of a layout, one byte per two words in the bitmap's own
\* format; the layout of a type with an odd number of words is repeated.
MaskBytes(ptrs) ==
    LET n == Len(ptrs)
        rep == IF n % 2 = 0 THEN ptrs ELSE ptrs \o ptrs
    IN  [j \in 1..(Len(rep) \div 2) |-> rep[2 * j - 1] * 4 + rep[2 * j] * 64]

\* line 210: uintptr(typ.gc[0])|uintptr(typ.gc[1]) != 0
GCNonZero(t) ==
    IF TypeTable[t].gcprog THEN TRUE
    ELSE \E j \in DOMAIN MaskBytes(TypeTable[t].ptrs) :
             MaskBytes(TypeTable[t].ptrs)[j] # 0

\* ------------------------------------------------------------ the bitmap
\* The bitmap is kept as a function from the heap word offsets written so
\* far to their 4-bit fields; a field never written reads as 0.
Field(bm, off) == IF off \in DOMAIN bm THEN bm[off] ELSE 0

SetField(bm, off, v) ==
    [o \in (DOMAIN bm) \cup {off} |-> IF o = off THEN v ELSE bm[o]]

\* lines 195-197, 274-277: the word offset of address p
WordOff(p) == (p - arena_start) \div ptrSize

\* *xbitsb = v: one byte of the bitmap holds the fields of an even word
\* offset (low half) and of the following odd one (high half).
WriteByte(bm, off, v) ==
    LET base == off - (off % 2)
    IN  [o \in (DOMAIN bm) \cup {base, base + 1} |->
            IF o = base THEN v % 16
            ELSE IF o = base + 1 THEN v \div 16
            ELSE bm[o]]

OrBit(v, b) == IF (v \div b) % 2 = 1 THEN v ELSE v + b

\* Faulty variant of MarkOneWord: the field is assigned, not or-ed into.
MarkOneWord_assign(bm, x) == SetField(bm, WordOff(x), bitsPointer * 4)

\* lines 205-209: a one-word object is a pointer
MarkOneWord(bm, x) ==
    SetField(bm, WordOff(x), OrBit(Field(bm, WordOff(x)), bitsPointer * 4))

\* line 210
HasMask(t, size) ==
    /\ t # "nil"
    /\ GCNonZero(t)
    /\ TypeTable[t].size > ptrSize

\* lines 211-219: a GC-program type whose program is unrolled in place
UnrollInPlace(t) ==
    LET nptr == (TypeTable[t].size + ptrSize - 1) \div ptrSize
        m1 == IF nptr % 2 # 0 THEN nptr * 2 ELSE nptr
        masksize == (m1 * 4) \div 8 + 1
    IN  /\ TypeTable[t].gcprog
        /\ masksize > maxGCMask
        /\ TypeTable[t].prog

\* unrollgcproginplace_m: the program's layout written word by word over the
\* requested size, the boundary bit on the first word, and the word after
\* the last one marked dead when the object is larger than the request.
UnrollProgInPlace(bm, x, t, size, size0) ==
    LET ptrs == TypeTable[t].ptrs
        nw == (size0 + ptrSize - 1) \div ptrSize
        base == WordOff(x)
        tail == IF size0 < size THEN {base + nw} ELSE {}
    IN  [o \in (DOMAIN bm) \cup (base..(base + nw - 1)) \cup tail |->
            IF o = base THEN ptrs[1] * 4 + bitBoundary
            ELSE IF o \in (base + 1)..(base + nw - 1)
                 THEN ptrs[((o - base) % Len(ptrs)) + 1] * 4
            ELSE IF o \in tail THEN bitsDead * 4
            ELSE bm[o]]

\* Faulty variant of MaskPeriod: the period is halved for an odd number of
\* words too.
MaskPeriod_half(t) ==
    LET te == TypeTable[t].size \div ptrSize
    IN  IF te \div 2 = 0 THEN 1 ELSE te \div 2

\* lines 246-250: te, the number of mask bytes before the mask repeats
MaskPeriod(t) ==
    LET te == TypeTable[t].size \div ptrSize
    IN  IF te % 2 = 0 THEN te \div 2 ELSE te

\* Faulty variant of GranuleByte: the second word of the last granule is
\* not cleared when the requested size ends after its first word.
GranuleByte_noclear(t, masked, i, size0) ==
    LET k == i \div (2 * ptrSize)
        v0 == IF masked
              THEN MaskBytes(TypeTable[t].ptrs)[(k % MaskPeriod(t)) + 1]
              ELSE bitsPointer * 4 + bitsPointer * 64
    IN  IF i = 0 THEN OrBit(v0, bitBoundary) ELSE v0

\* Faulty variant of MarkDeadTail: the word after the request is left as it
\* was.
MarkDeadTail_never(bm, x, size, size0) == bm

\* lines 258-279: the byte written for the granule at byte offset i
GranuleByte(t, masked, i, size0) ==
    LET k == i \div (2 * ptrSize)
        v0 == IF masked
              THEN MaskBytes(TypeTable[t].ptrs)[(k % MaskPeriod(t)) + 1]
              ELSE bitsPointer * 4 + bitsPointer * 64
        v1 == IF i = 0 THEN OrBit(v0, bitBoundary) ELSE v0
    IN  IF i + ptrSize = size0 THEN v1 % 64 ELSE v1

\* Faulty variant of DeadTailDue: the word after the request is written
\* also when the request fills the object.
DeadTailDue_always(size, size0) == size0 % (2 * ptrSize) = 0

\* line 280
DeadTailDue(size, size0) == size0 % (2 * ptrSize) = 0 /\ size0 < size

\* lines 258-279: the mask copied granule by granule over the requested size
CopyMask(bm, x, t, masked, size0) ==
    LET base == WordOff(x) - (WordOff(x) % 2)
        ng == (size0 + 2 * ptrSize - 1) \div (2 * ptrSize)
        written == base..(base + 2 * ng - 1)
    IN  [o \in (DOMAIN bm) \cup written |->
            IF o \in written
            THEN LET v == GranuleByte(t, masked,
                                      ((o - base) \div 2) * 2 * ptrSize, size0)
                 IN  IF (o - base) % 2 = 0 THEN v % 16 ELSE v \div 16
            ELSE bm[o]]

\* lines 280-287: the word after the last requested one is marked dead
MarkDeadTail(bm, x, size, size0) ==
    IF DeadTailDue(size, size0)
    THEN WriteByte(bm, WordOff(x + size0), bitsDead * 4)
    ELSE bm

\* lines 193-288: the bitmap after gomallocgc has described object x
MarkAllocated(bm, x, t, size, size0) ==
    IF size = ptrSize THEN MarkOneWord(bm, x)
    ELSE IF HasMask(t, size) /\ UnrollInPlace(t)
         THEN UnrollProgInPlace(bm, x, t, size, size0)
    ELSE IF HasMask(t, size) /\ size = 2 * ptrSize
         THEN WriteByte(bm, WordOff(x),
                        OrBit(MaskBytes(TypeTable[t].ptrs)[1], bitBoundary))
    ELSE IF size = 2 * ptrSize
         THEN WriteByte(bm, WordOff(x),
                        bitsPointer * 4 + bitsPointer * 64 + bitBoundary)
    ELSE MarkDeadTail(CopyMask(bm, x, t, HasMask(t, size), size0),
                      x, size, size0)

\* The fields held by the bitmap byte, and by the bitmap word, of field off.
ByteFields(off) == {off - (off % 2), off - (off % 2) + 1}
WordFields(off) ==
    {off - (off % wordsPerBitmapWord) + j : j \in 0..(wordsPerBitmapWord - 1)}

\* lines 193-288: the fields the writes of gomallocgc read or write for
\* object x.  Line 207 reads and writes a whole bitmap word; every other
\* write stores one byte.
Touched(x, t, size, size0) ==
    LET base == WordOff(x)
        nw == (size0 + ptrSize - 1) \div ptrSize
        ng == (size0 + 2 * ptrSize - 1) \div (2 * ptrSize)
    IN  IF size = ptrSize THEN WordFields(base)
        ELSE IF HasMask(t, size) /\ UnrollInPlace(t)
             THEN (base..(base + nw - 1))
                      \cup (IF size0 < size THEN {base + nw} ELSE {})
        ELSE IF size = 2 * ptrSize THEN ByteFields(base)
        ELSE ((base - (base % 2))..(base - (base % 2) + 2 * ng - 1))
                 \cup (IF DeadTailDue(size, size0)
                       THEN ByteFields(WordOff(x + size0)) ELSE {})

\* The bitmap words that hold the fields of set s.
BitmapWords(s) == {o \div wordsPerBitmapWord : o \in s}

\* The fields that describe the heap words of [x, x+size).
Extent(x, size) == WordOff(x)..(WordOff(x) + size \div ptrSize - 1)

\* The fields outside the set ext on which two bitmaps differ.
Differ(bm1, bm2, ext) ==
    LET d1 == DOMAIN bm1
        d2 == DOMAIN bm2
    IN  {o \in (d1 \cup d2) \ ext : (IF o \in d1 THEN bm1[o] ELSE 0)
                                        # (IF o \in d2 THEN bm2[o] ELSE 0)}

\* lines 231-236: the first use of a pre-unrolled mask unrolls the program
NeedsUnroll(t, size) ==
    /\ size # ptrSize
    /\ HasMask(t, size)
    /\ TypeTable[t].gcprog
    /\ ~UnrollInPlace(t)

\* ------------------------------------------------------------------ frames
NoFrame ==
    [size |-> 0, size0 |-> 0, typ |-> "nil", flags |-> 0, x |-> nil,
     force |-> 0, i |-> 0, n |-> 0, caller |-> "none", ptrarg |-> <<>>]

\* flags&flagNoScan != 0
NoScan(flags) == (flags \div flagNoScan) % 2 = 1

\* line 168: flags&flagNoZero != 0
NoZero(flags) == (flags \div flagNoZero) % 2 = 1

\* Faulty variant of ClearDue: objects of two words and more are cleared.
ClearDue_oneword(size, second) == size > ptrSize /\ second # 0

\* line 170: the object is cleared when it is larger than two words and
\* its second word is not 0
ClearDue(size, second) == size > 2 * ptrSize /\ second # 0

\* The words of memory m that are not 0, as 0 or 1 for one word.
WordAt(m, off) == IF off \in m THEN 1 ELSE 0

\* A context runs unless the process has aborted or another context has
\* stopped the world.
CanRun(c) == ~aborted /\ stopped \in {NoCtx, c}

\* ------------------------------------------------------------ shared heap
\* mcacheRefill_m: a fresh span of SpanObjs objects of class k, starting at
\* page p; its free list holds the objects in address order.
SpanStart(p) == arena_start + p * pageSize
SpanPages(k) == (SpanObjs * class_to_size[k] + pageSize - 1) \div pageSize
FreshList(k, p) ==
    [j \in 1..SpanObjs |-> SpanStart(p) + (j - 1) * class_to_size[k]]

\* largeAlloc_m: the span of a large object covers the request rounded up
\* to whole pages.
LargePages(size) == (size + pageSize - 1) \div pageSize

\* The heap marks the start of every object of a new span in the bitmap.
RECURSIVE MarkSpan(_, _)
MarkSpan(bm, list) ==
    IF list = <<>> THEN bm
    ELSE MarkSpan(SetField(bm, WordOff(Head(list)), bitBoundary), Tail(list))

\* The heap moves the cache's local_cachealloc into memstats.heap_alloc when
\* it hands out a span, and charges the pages of a large object.
HeapAllocAfter(c, small, refill, npages) ==
    IF small
    THEN IF refill THEN heap_alloc + local_cachealloc[c] ELSE heap_alloc
    ELSE heap_alloc + local_cachealloc[c] + npages * pageSize

\* ------------------------------------------------------------- gomallocgc
\* Faulty variant of ZeroSize: the zero-size test is missing.
ZeroSize_never(size) == FALSE

\* line 59
ZeroSize(size) == size = 0

\* Faulty variant of Reentrant: the busy flag is not tested.
Reentrant_never(c) == FALSE

\* line 63
Reentrant(c) == mallocing[c] # 0

\* line 73
IsTiny(size, flags) ==
    size <= maxSmallSize /\ NoScan(flags) /\ size < maxTinySize

\* lines 108-114
TinyAlign(size) ==
    IF size % 8 = 0 THEN 8
    ELSE IF size % 4 = 0 THEN 4
    ELSE IF size % 2 = 0 THEN 2
    ELSE 1

TinyAligned(c, size) == roundup(tiny[c], TinyAlign(size))

\* Faulty variant of TinySize1: the bytes skipped for alignment are not
\* counted.
TinySize1_nopad(c, size) == size

\* line 115: size1, the request plus the bytes skipped to align it
TinySize1(c, size) == size + (TinyAligned(c, size) - tiny[c])

\* lines 105, 116
TinyFits(c, size) ==
    /\ size <= tinysize[c]
    /\ TinySize1(c, size) <= tinysize[c]

\* line 143
TinyReplace(c, size) == maxTinySize - size > tinysize[c]

\* Faulty variant of TriggerGC: equality does not trigger.
TriggerGC_gt(h, n) == h > n

\* line 309
TriggerGC(h, n) == h >= n

Compare(h, n) == IF h >= n THEN "ge" ELSE "lt"

\* Faulty variant of Counted: an allocation that uses up the counter exactly
\* is counted, not sampled.
Counted_le(rate, size, ns) == rate > 0 /\ size < rate /\ size <= ns

\* lines 299-301: the allocation is counted against next_sample, not sampled
Counted(rate, size, ns) == rate > 0 /\ size < rate /\ size < ns

\* lines 299, 302-303: profilealloc is called and records a sample
Sampled(rate, size, ns) == rate > 0 /\ ~Counted(rate, size, ns)

\* line 365: profilealloc picks the next sample interval
Redraw(rate, size, ns) == Sampled(rate, size, ns) /\ size < rate

\* fastrand2: the values int32(fastrand2()) % (2*rate) can take
Draws(rate) == IF rate > 0 THEN (1 - 2 * rate)..(2 * rate - 1) ELSE {0}

\* lines 58-67: the call, up to the reentrancy guard.  A call is made by a
\* context outside the allocator (pc "idle") or, nested, by a context that is
\* inside it and has its busy flag set (pc "malloc").
gomallocgc(c, size, typ, flags) ==
    /\ CanRun(c)
    /\ \/ pc[c] = "idle" /\ obs.calls < obs.budget
       \/ pc[c] = "malloc" /\ obs.nested[c] = "none"
    /\ IF ZeroSize(size)
       THEN /\ obs' = IF pc[c] = "idle"
                      THEN [obs EXCEPT !.ncalls[c] = @ + 1, !.calls = @ + 1,
                                       !.req[c] = size,
                                       !.path[c] = "zero",
                                       !.ret[c] = zeroObject,
                                       !.cmp[c] = "none", !.trig[c] = FALSE]
                      ELSE [obs EXCEPT !.ncalls[c] = @ + 1, !.req[c] = size,
                                       !.nested[c] = "zero",
                                       !.nret[c] = zeroObject]
            /\ UNCHANGED <<pc, frame, mvars, cachevars, heapvars, statvars,
                           gcvars, cfgvars, aborted>>
       ELSE IF Reentrant(c)
       THEN /\ locks' = [locks EXCEPT ![c] = @ + 1]
            /\ aborted' = TRUE
            /\ pc' = [pc EXCEPT ![c] = "throw"]
            /\ obs' = [obs EXCEPT !.ncalls[c] = @ + 1, !.req[c] = size,
                                  !.nested[c] = "throw"]
            /\ UNCHANGED <<frame, mallocing, gcing, cachevars, heapvars,
                           statvars, gcvars, cfgvars>>
       ELSE /\ locks' = [locks EXCEPT ![c] = @ + 1]
            /\ mallocing' = [mallocing EXCEPT ![c] = 1]
            /\ frame' = [frame EXCEPT ![c] =
                   [NoFrame EXCEPT !.size = size, !.size0 = size,
                                   !.typ = typ, !.flags = flags]]
            /\ pc' = [pc EXCEPT ![c] = "malloc"]
            /\ obs' = [obs EXCEPT !.ncalls[c] = @ + 1, !.calls = @ + 1,
                                  !.req[c] = size, !.path[c] = "none",
                                  !.ret[c] = nil, !.cmp[c] = "none",
                                  !.trig[c] = FALSE]
            /\ UNCHANGED <<gcing, cachevars, heapvars, statvars, gcvars,
                           cfgvars, aborted>>

\* Faulty variant of releasem: the lock count is left as it is.
releasem_keep(n) == n

\* lines 122, 307: releasem(mp) undoes the acquirem of line 62
releasem(n) == n - 1

\* lines 104-124: the request fits the current tiny block
malloc_tinyfit(c) ==
    LET size == frame[c].size
        x == TinyAligned(c, size)
        size1 == TinySize1(c, size)
    IN  /\ CanRun(c)
        /\ pc[c] = "malloc"
        /\ IsTiny(size, frame[c].flags)
        /\ TinyFits(c, size)
        /\ tiny' = [tiny EXCEPT ![c] = x + size]
        /\ tinysize' = [tinysize EXCEPT ![c] = @ - size1]
        /\ mallocing' = [mallocing EXCEPT ![c] = 0]
        /\ locks' = [locks EXCEPT ![c] = releasem(@)]
        /\ pc' = [pc EXCEPT ![c] = "idle"]
        /\ frame' = [frame EXCEPT ![c] = NoFrame]
        /\ obs' = [obs EXCEPT !.path[c] = "tinyfit", !.ret[c] = x,
                              !.ranges = Append(@, <<x, size>>)]
        /\ UNCHANGED <<gcing, alloc, sref, local_cachealloc, next_sample,
                       heapvars, statvars, gcvars, cfgvars, aborted>>

\* lines 126-307: a fresh tiny block, a size-class object or a large object,
\* its bitmap, the sampling step and releasem
malloc_alloc(c) ==
    LET size0 == frame[c].size
        flags == frame[c].flags
        typ == frame[c].typ
        istiny == IsTiny(size0, flags)
        small == size0 <= maxSmallSize
        k == IF istiny THEN tinySizeClass
             ELSE IF small THEN SizeClass(size0) ELSE 1
        refill == small /\ alloc[c][k] = <<>>
        list == IF refill THEN FreshList(k, pagesUsed) ELSE alloc[c][k]
        npages == IF small THEN (IF refill THEN SpanPages(k) ELSE 0)
                  ELSE LargePages(size0)
        x == IF small THEN Head(list) ELSE SpanStart(pagesUsed)
        size == IF istiny THEN maxTinySize
                ELSE IF small THEN SmallSize(size0)
                ELSE npages * pageSize
        bm0 == IF refill THEN MarkSpan(bitmap, list)
               ELSE IF small THEN bitmap
               ELSE MarkSpan(bitmap, <<x>>)
        bm1 == IF NoScan(flags) THEN bm0
               ELSE MarkAllocated(bm0, x, typ, size, size0)
        touch == IF NoScan(flags) THEN {} ELSE Touched(x, typ, size, size0)
        out == touch \ Extent(x, size)
        w0 == WordOff(x)
        linked == IF small /\ Tail(list) # <<>> THEN mem \cup {w0}
                  ELSE mem \ {w0}
        clear == ~istiny /\ small /\ ~NoZero(flags)
                     /\ ClearDue(size, WordAt(linked, w0 + 1))
        mem1 == IF istiny THEN linked \ {w0, w0 + 1}
                ELSE IF small
                THEN IF NoZero(flags) THEN linked
                     ELSE IF clear THEN linked \ Extent(x, size)
                     ELSE linked \ {w0}
                ELSE IF NoZero(flags) THEN mem
                ELSE mem \ Extent(x, size)
        rate == env.rate
        counted == Counted(rate, size, next_sample[c])
        redraw == Redraw(rate, size, next_sample[c])
    IN  /\ CanRun(c)
        /\ pc[c] = "malloc"
        /\ ~(istiny /\ TinyFits(c, size0))
        /\ pagesUsed + npages <= MaxPages
        /\ pagesUsed' = pagesUsed + npages
        /\ alloc' = IF small THEN [alloc EXCEPT ![c][k] = Tail(list)] ELSE alloc
        /\ sref' = IF small
                   THEN [sref EXCEPT ![c][k] = (IF refill THEN 0 ELSE @) + 1]
                   ELSE sref
        /\ IF istiny /\ TinyReplace(c, size0)
           THEN /\ tiny' = [tiny EXCEPT ![c] = x + size0]
                /\ tinysize' = [tinysize EXCEPT ![c] = maxTinySize - size0]
           ELSE UNCHANGED <<tiny, tinysize>>
        /\ local_cachealloc' =
               IF small
               THEN [local_cachealloc EXCEPT
                        ![c] = (IF refill THEN 0 ELSE @) + size]
               ELSE [local_cachealloc EXCEPT ![c] = 0]
        /\ heap_alloc' = HeapAllocAfter(c, small, refill, npages)
        /\ bitmap' = bm1
        /\ mem' = mem1
        /\ unrolled' = IF ~NoScan(flags) /\ NeedsUnroll(typ, size)
                       THEN unrolled \cup {typ} ELSE unrolled
        /\ mallocing' = [mallocing EXCEPT ![c] = 0]
        /\ \E r \in (IF redraw THEN Draws(rate) ELSE {0}) :
              next_sample' =
                  IF counted THEN [next_sample EXCEPT ![c] = @ - size]
                  ELSE IF redraw
                  THEN [next_sample EXCEPT ![c] =
                          IF r - (size - @) < 0 THEN 0 ELSE r - (size - @)]
                  ELSE next_sample
        /\ locks' = [locks EXCEPT ![c] = releasem(@)]
        /\ pc' = [pc EXCEPT ![c] = "gccheck"]
        /\ frame' = [frame EXCEPT ![c].x = x, ![c].size = size]
        /\ obs' = [obs EXCEPT
               !.path[c] = IF istiny THEN "tinynew"
                           ELSE IF small THEN "small" ELSE "large",
               !.ret[c] = x,
               !.ranges = IF istiny THEN Append(@, <<x, size0>>) ELSE @,
               !.blocks = IF istiny THEN @ \cup {x} ELSE @,
               !.last = [x |-> x, size |-> size, size0 |-> size0,
                         typ |-> typ, flags |-> flags,
                         ns0 |-> next_sample[c],
                         sampled |-> Sampled(rate, size, next_sample[c]),
                         redrawn |-> redraw,
                         second |-> WordAt(linked, w0 + 1),
                         stale |-> linked \cap Extent(x, size),
                         cleared |-> clear],
               !.pages[c] = @ \cup (pagesUsed..(pagesUsed + npages - 1)),
               !.touched[c] = IF obs.watch THEN @ \cup BitmapWords(touch)
                              ELSE @,
               !.stray[c] = IF obs.watch THEN @ \cup out ELSE @,
               !.strayMulti[c] = IF obs.watch /\ size # ptrSize
                                 THEN @ \cup out ELSE @,
               !.altered[c] =
                   IF obs.watch
                   THEN @ \cup Differ(bitmap', bm0, Extent(x, size))
                   ELSE @]
        /\ UNCHANGED <<gcing, next_gc, gcvars, cfgvars, aborted>>

\* lines 309-313: the allocation-triggered collection check
malloc_gccheck(c) ==
    /\ CanRun(c)
    /\ pc[c] = "gccheck"
    /\ IF TriggerGC(heap_alloc, next_gc)
       THEN /\ pc' = [pc EXCEPT ![c] = "gogc"]
            /\ frame' = [frame EXCEPT ![c] =
                   [NoFrame EXCEPT !.force = 0, !.caller = "gomallocgc"]]
            /\ obs' = [obs EXCEPT !.cmp[c] = Compare(heap_alloc, next_gc),
                                  !.trig[c] = TRUE,
                                  !.force[c] = 0,
                                  !.steps[c] = <<>>, !.eager[c] = <<>>,
                                  !.lost[c] = FALSE, !.recheck[c] = "none"]
       ELSE /\ pc' = [pc EXCEPT ![c] = "idle"]
            /\ frame' = [frame EXCEPT ![c] = NoFrame]
            /\ obs' = [obs EXCEPT !.cmp[c] = Compare(heap_alloc, next_gc)]
    /\ UNCHANGED <<mvars, cachevars, heapvars, statvars, gcvars, cfgvars,
                   aborted>>

\* ------------------------------------------------------------------- gogc
\* Leaving gogc: both callers (gomallocgc line 310, GC line 472) return.
Return(c, how) ==
    /\ pc' = [pc EXCEPT ![c] = "idle"]
    /\ frame' = [frame EXCEPT ![c] = NoFrame]
    /\ obs' = [obs EXCEPT !.steps[c] = Append(@, how)]

\* Faulty variant of GCOff: the percentage is never tested.
GCOff_never(pct) == FALSE

\* line 411
GCOff(pct) == pct < 0

\* Faulty variant of NotNeeded: the comparison includes equality.
NotNeeded_le(force, h, n) == force = 0 /\ h <= n

\* line 417
NotNeeded(force, h, n) == force = 0 /\ h < n

\* Faulty variant of EagerFlag: force 2 is not taken as eager.
EagerFlag_gt(force) == IF force > 2 THEN 1 ELSE 0

\* lines 447-451
EagerFlag(force) == IF force >= 2 THEN 1 ELSE 0

\* lines 437-440
Cycles(gctrace) == IF gctrace > 1 THEN 2 ELSE 1

\* semacquire(&worldsema, false) proceeds once the semaphore is positive
cansemacquire(sema) == sema > 0

\* stoptheworld returns once every other context is at a point where it can
\* be stopped, which it is not while it holds locks.
Quiesced(c) == \A d \in Ctx \ {c} : locks[d] = 0

\* gc_m: one collection cycle leaves some part of the heap live and sets the
\* next threshold to that plus gcpercent per cent of it.
LiveFloor == 4096
LiveAfter(h) == {h, IF h < LiveFloor THEN h ELSE LiveFloor}
NextGC(live, pct) == live + (live * pct) \div 100

\* lines 388-404, 411: the checks before the semaphore
gogc_enter(c) ==
    /\ CanRun(c)
    /\ pc[c] = "gogc"
    /\ IF enablegc = 0 THEN Return(c, "disabled")
       ELSE IF locks[c] + 1 > 1 THEN Return(c, "locked")
       ELSE IF panicking # 0 THEN Return(c, "panicking")
       ELSE IF gcpercent = gcpercentUnknown
       THEN /\ pc' = [pc EXCEPT ![c] = "gogc_lock"]
            /\ UNCHANGED <<frame, obs>>
       ELSE IF GCOff(gcpercent) THEN Return(c, "off")
       ELSE /\ pc' = [pc EXCEPT ![c] = "gogc_sema"]
            /\ UNCHANGED <<frame, obs>>
    /\ UNCHANGED <<mvars, cachevars, heapvars, statvars, gcvars, cfgvars,
                   aborted>>

\* line 405: golock(&mheap_.lock)
gogc_lock(c) ==
    /\ CanRun(c)
    /\ pc[c] = "gogc_lock"
    /\ heaplock = NoCtx
    /\ heaplock' = c
    /\ locks' = [locks EXCEPT ![c] = @ + 1]
    /\ pc' = [pc EXCEPT ![c] = "gogc_read"]
    /\ UNCHANGED <<frame, mallocing, gcing, cachevars, heapvars, statvars,
                   gcpercent, worldsema, stopped, pools, cfgvars, aborted, obs>>

\* Faulty variant of StillUnknown: the test under the lock is left out.
StillUnknown_always(pct) == TRUE

\* line 406: the test repeated under mheap_.lock
StillUnknown(pct) == pct = gcpercentUnknown

\* lines 406-413: read the configuration once, unlock, test the percentage
gogc_read(c) ==
    LET must == StillUnknown(gcpercent)
        pct == IF must THEN env.gogc ELSE gcpercent
    IN  /\ CanRun(c)
        /\ pc[c] = "gogc_read"
        /\ gcpercent' = pct
        /\ heaplock' = NoCtx
        /\ locks' = [locks EXCEPT ![c] = @ - 1]
        /\ pc' = [pc EXCEPT ![c] = IF GCOff(pct) THEN "idle" ELSE "gogc_sema"]
        /\ frame' = [frame EXCEPT ![c] = IF GCOff(pct) THEN NoFrame ELSE @]
        /\ obs' = [obs EXCEPT
               !.steps[c] = IF GCOff(pct) THEN Append(@, "off") ELSE @,
               !.reads = IF must THEN Append(@, [by |-> c, holder |-> heaplock])
                         ELSE @,
               !.tested = @ \cup {c}]
        /\ UNCHANGED <<mallocing, gcing, cachevars, heapvars, statvars,
                       worldsema, stopped, pools, cfgvars, aborted>>

\* Contexts that are inside gogc(0) and have not acquired the semaphore
Racing(d) ==
    pc[d] \in {"gogc", "gogc_lock", "gogc_read", "gogc_sema"}
    /\ frame[d].force = 0

\* Faulty variant of gogc_semacquire: a try-acquire, which returns at once
\* when the semaphore is taken.
gogc_semacquire_try(c) ==
    /\ CanRun(c)
    /\ pc[c] = "gogc_sema"
    /\ IF cansemacquire(worldsema)
       THEN /\ worldsema' = worldsema - 1
            /\ pc' = [pc EXCEPT ![c] = "gogc_need"]
            /\ obs' = [obs EXCEPT !.steps[c] = Append(@, "semacquire")]
            /\ UNCHANGED frame
       ELSE /\ Return(c, "busy")
            /\ UNCHANGED worldsema
    /\ UNCHANGED <<mvars, cachevars, heapvars, statvars, gcpercent,
                   heaplock, stopped, pools, cfgvars, aborted>>

\* line 415: semacquire(&worldsema, false)
gogc_semacquire(c) ==
    /\ CanRun(c)
    /\ pc[c] = "gogc_sema"
    /\ cansemacquire(worldsema)
    /\ worldsema' = worldsema - 1
    /\ pc' = [pc EXCEPT ![c] = "gogc_need"]
    /\ obs' = [obs EXCEPT
           !.steps[c] = Append(@, "semacquire"),
           !.lost = [d \in Ctx |->
                        IF d # c /\ Racing(d) /\ frame[c].force = 0
                        THEN TRUE ELSE @[d]]]
    /\ UNCHANGED <<frame, mvars, cachevars, heapvars, statvars, gcpercent,
                   heaplock, stopped, pools, cfgvars, aborted>>

\* lines 417-422: a context that finds the heap below the threshold leaves
gogc_need(c) ==
    /\ CanRun(c)
    /\ pc[c] = "gogc_need"
    /\ IF NotNeeded(frame[c].force, heap_alloc, next_gc)
       THEN /\ worldsema' = worldsema + 1
            /\ pc' = [pc EXCEPT ![c] = "idle"]
            /\ frame' = [frame EXCEPT ![c] = NoFrame]
            /\ obs' = [obs EXCEPT
                   !.steps[c] = @ \o <<"semrelease", "notneeded">>,
                   !.recheck[c] = Compare(heap_alloc, next_gc)]
       ELSE /\ pc' = [pc EXCEPT ![c] = "gogc_stop"]
            /\ obs' = [obs EXCEPT
                   !.recheck[c] = Compare(heap_alloc, next_gc)]
            /\ UNCHANGED <<frame, worldsema>>
    /\ UNCHANGED <<mvars, cachevars, heapvars, statvars, gcpercent, heaplock,
                   stopped, pools, cfgvars, aborted>>

\* Faulty variant of gogc_stop: the world is not stopped.
gogc_stop_running(c) ==
    /\ CanRun(c)
    /\ pc[c] = "gogc_stop"
    /\ locks' = [locks EXCEPT ![c] = @ + 1]
    /\ gcing' = [gcing EXCEPT ![c] = 1]
    /\ pc' = [pc EXCEPT ![c] = "gogc_clear"]
    /\ obs' = [obs EXCEPT !.steps[c] = Append(@, "stoptheworld")]
    /\ UNCHANGED <<frame, mallocing, cachevars, heapvars, statvars, gcvars,
                   cfgvars, aborted>>

\* lines 425-428: acquirem, mp.gcing = 1, stoptheworld
gogc_stop(c) ==
    /\ CanRun(c)
    /\ pc[c] = "gogc_stop"
    /\ Quiesced(c)
    /\ locks' = [locks EXCEPT ![c] = @ + 1]
    /\ gcing' = [gcing EXCEPT ![c] = 1]
    /\ stopped' = c
    /\ pc' = [pc EXCEPT ![c] = "gogc_clear"]
    /\ obs' = [obs EXCEPT !.steps[c] = Append(@, "stoptheworld")]
    /\ UNCHANGED <<frame, mallocing, cachevars, heapvars, statvars, gcpercent,
                   worldsema, heaplock, pools, cfgvars, aborted>>

\* lines 430, 437-440: clearpools empties the transient pools, among them
\* every cache's tiny block; then the number of cycles is fixed
gogc_clear(c) ==
    /\ CanRun(c)
    /\ pc[c] = "gogc_clear"
    /\ pools' = FALSE
    /\ tiny' = [d \in Ctx |-> nil]
    /\ tinysize' = [d \in Ctx |-> 0]
    /\ frame' = [frame EXCEPT ![c].n = Cycles(env.gctrace), ![c].i = 0]
    /\ pc' = [pc EXCEPT ![c] = "gogc_gc"]
    /\ obs' = [obs EXCEPT !.steps[c] = Append(@, "clearpools")]
    /\ UNCHANGED <<mvars, alloc, sref, local_cachealloc, next_sample,
                   heapvars, statvars, gcpercent, worldsema, heaplock,
                   stopped, cfgvars, aborted>>

\* lines 441-453: one iteration of the loop, onM(&gc_m)
gogc_gc(c) ==
    /\ CanRun(c)
    /\ pc[c] = "gogc_gc"
    /\ frame[c].i < frame[c].n
    /\ \E live \in LiveAfter(heap_alloc) :
          /\ heap_alloc' = live
          /\ next_gc' = NextGC(live, gcpercent)
    /\ frame' = [frame EXCEPT ![c].i = @ + 1]
    /\ pc' = [pc EXCEPT ![c] =
           IF frame[c].i + 1 < frame[c].n THEN "gogc_gc" ELSE "gogc_done"]
    /\ obs' = [obs EXCEPT !.steps[c] = Append(@, "gc_m"),
                          !.eager[c] = Append(@, EagerFlag(frame[c].force))]
    /\ UNCHANGED <<mvars, cachevars, heapvars, gcvars, cfgvars, aborted>>

\* Faulty variant of gogc_done: the world is restarted before worldsema is
\* released.
gogc_done_restart(c) ==
    /\ CanRun(c)
    /\ pc[c] = "gogc_done"
    /\ gcing' = [gcing EXCEPT ![c] = 0]
    /\ stopped' = NoCtx
    /\ pc' = [pc EXCEPT ![c] = "gogc_start"]
    /\ obs' = [obs EXCEPT !.steps[c] = Append(@, "starttheworld")]
    /\ UNCHANGED <<frame, locks, mallocing, cachevars, heapvars, statvars,
                   gcpercent, worldsema, heaplock, pools, cfgvars, aborted>>

\* lines 456-457: mp.gcing = 0, semrelease(&worldsema)
gogc_done(c) ==
    /\ CanRun(c)
    /\ pc[c] = "gogc_done"
    /\ gcing' = [gcing EXCEPT ![c] = 0]
    /\ worldsema' = worldsema + 1
    /\ pc' = [pc EXCEPT ![c] = "gogc_start"]
    /\ obs' = [obs EXCEPT !.steps[c] = Append(@, "semrelease")]
    /\ UNCHANGED <<frame, locks, mallocing, cachevars, heapvars, statvars,
                   gcpercent, heaplock, stopped, pools, cfgvars, aborted>>

\* lines 458-466: starttheworld, releasem, gosched, return
gogc_start(c) ==
    /\ CanRun(c)
    /\ pc[c] = "gogc_start"
    /\ stopped' = NoCtx
    /\ locks' = [locks EXCEPT ![c] = @ - 1]
    /\ pc' = [pc EXCEPT ![c] = "idle"]
    /\ frame' = [frame EXCEPT ![c] = NoFrame]
    /\ obs' = [obs EXCEPT !.steps[c] = @ \o <<"starttheworld", "collected">>]
    /\ UNCHANGED <<mallocing, gcing, cachevars, heapvars, statvars, gcpercent,
                   worldsema, heaplock, pools, cfgvars, aborted>>

\* lines 471-473: GC()
GC(c) ==
    /\ CanRun(c)
    /\ pc[c] = "idle"
    /\ obs.calls < obs.budget
    /\ pc' = [pc EXCEPT ![c] = "gogc"]
    /\ frame' = [frame EXCEPT ![c] =
           [NoFrame EXCEPT !.force = 2, !.caller = "GC"]]
    /\ obs' = [obs EXCEPT !.ngc[c] = @ + 1, !.calls = @ + 1,
                          !.force[c] = 2, !.steps[c] = <<>>,
                          !.eager[c] = <<>>, !.lost[c] = FALSE,
                          !.recheck[c] = "none"]
    /\ UNCHANGED <<mvars, cachevars, heapvars, statvars, gcvars, cfgvars,
                   aborted>>

\* ------------------------------------------------------------ SetFinalizer
\* A *_type is given by its kind byte; nil is the nil type.
\* Faulty variant of BadFinalizer: the kind is compared without kindMask.
BadFinalizer_nomask(ftyp) == ftyp # nil /\ ftyp # kindFunc

\* line 556
BadFinalizer(ftyp) == ftyp # nil /\ ftyp % (kindMask + 1) # kindFunc

\* lines 547, 550
BadObject(typ) == typ = nil \/ typ % (kindMask + 1) # kindPtr

\* lines 542-563: the checks, acquirem and the arguments of the M call
SetFinalizer(c, typ, data, ftyp, fdata) ==
    /\ CanRun(c)
    /\ pc[c] = "idle"
    /\ obs.calls < obs.budget
    /\ obs' = [obs EXCEPT !.calls = @ + 1,
                          !.finreq = Append(@, <<typ, data, ftyp, fdata>>)]
    /\ IF BadObject(typ) \/ BadFinalizer(ftyp)
       THEN /\ aborted' = TRUE
            /\ pc' = [pc EXCEPT ![c] = "throw"]
            /\ UNCHANGED <<frame, locks>>
       ELSE /\ locks' = [locks EXCEPT ![c] = @ + 1]
            /\ frame' = [frame EXCEPT ![c] =
                   [NoFrame EXCEPT !.ptrarg = <<typ, data, ftyp, fdata>>]]
            /\ pc' = [pc EXCEPT ![c] = "setFinalizer_m"]
            /\ UNCHANGED aborted
    /\ UNCHANGED <<mallocing, gcing, cachevars, heapvars, statvars, gcvars,
                   cfgvars>>

\* lines 564-566: onM(&setFinalizer_m) receives the four arguments; releasem
setFinalizer_m(c) ==
    /\ CanRun(c)
    /\ pc[c] = "setFinalizer_m"
    /\ obs' = [obs EXCEPT !.fin = Append(@, frame[c].ptrarg)]
    /\ locks' = [locks EXCEPT ![c] = @ - 1]
    /\ frame' = [frame EXCEPT ![c] = NoFrame]
    /\ pc' = [pc EXCEPT ![c] = "idle"]
    /\ UNCHANGED <<mallocing, gcing, cachevars, heapvars, statvars, gcvars,
                   cfgvars, aborted>>

\* A caller that holds a runtime lock while it allocates (the case lines
\* 393-398 are about) has mp.locks raised around its calls.
runtime_lock(c) ==
    /\ CanRun(c)
    /\ pc[c] = "idle"
    /\ locks[c] = 0
    /\ obs.calls = 0
    /\ \A d \in Ctx : locks[d] = 0
    /\ locks' = [locks EXCEPT ![c] = 1]
    /\ UNCHANGED <<pc, frame, mallocing, gcing, cachevars, heapvars, statvars,
                   gcvars, cfgvars, aborted, obs>>

runtime_unlock(c) ==
    /\ CanRun(c)
    /\ pc[c] = "idle"
    /\ locks[c] = 1
    /\ locks' = [locks EXCEPT ![c] = 0]
    /\ UNCHANGED <<pc, frame, mallocing, gcing, cachevars, heapvars, statvars,
                   gcvars, cfgvars, aborted, obs>>

\* ---------------------------------------------------------- specification
NoObs ==
    [ncalls |-> [c \in Ctx |-> 0], ngc |-> [c \in Ctx |-> 0],
     nested |-> [c \in Ctx |-> "none"], nret |-> [c \in Ctx |-> nil],
     req |-> [c \in Ctx |-> 0],
     path |-> [c \in Ctx |-> "none"], ret |-> [c \in Ctx |-> nil],
     cmp |-> [c \in Ctx |-> "none"], trig |-> [c \in Ctx |-> FALSE],
     steps |-> [c \in Ctx |-> <<>>], eager |-> [c \in Ctx |-> <<>>],
     lost |-> [c \in Ctx |-> FALSE], force |-> [c \in Ctx |-> -1], recheck |-> [c \in Ctx |-> "none"],
     ranges |-> <<>>, blocks |-> {}, calls |-> 0, budget |-> 0,
     arg |-> 0, rounded |-> -1, msize |-> -1,
     last |-> [x |-> nil, size |-> 0, size0 |-> 0, typ |-> "nil",
               flags |-> 0, ns0 |-> 0, sampled |-> FALSE,
               redrawn |-> FALSE, second |-> 0, stale |-> {},
               cleared |-> FALSE],
     finreq |-> <<>>, fin |-> <<>>,
     pages |-> [c \in Ctx |-> {}], touched |-> [c \in Ctx |-> {}],
     stray |-> [c \in Ctx |-> {}], strayMulti |-> [c \in Ctx |-> {}],
     altered |-> [c \in Ctx |-> {}], watch |-> FALSE, reads |-> <<>>, tested |-> {}]

InitHeapAlloc == 8192

\* The state after the runtime has started: empty caches, the configuration
\* not read yet, one page of the heap in use.
InitBase(envs, thresholds, modes) ==
    /\ pc = [c \in Ctx |-> "idle"]
    /\ locks = [c \in Ctx |-> 0]
    /\ mallocing = [c \in Ctx |-> 0]
    /\ gcing = [c \in Ctx |-> 0]
    /\ frame = [c \in Ctx |-> NoFrame]
    /\ tiny = [c \in Ctx |-> nil]
    /\ tinysize = [c \in Ctx |-> 0]
    /\ alloc = [c \in Ctx |-> [k \in UsedClasses |-> <<>>]]
    /\ sref = [c \in Ctx |-> [k \in UsedClasses |-> 0]]
    /\ local_cachealloc = [c \in Ctx |-> 0]
    /\ next_sample = [c \in Ctx |-> 0]
    /\ unrolled = {}
    /\ pagesUsed = 0
    /\ heap_alloc = InitHeapAlloc
    /\ next_gc \in thresholds
    /\ \E md \in modes : enablegc = md[1] /\ panicking = md[2]
    /\ gcpercent = gcpercentUnknown
    /\ worldsema = 1
    /\ heaplock = NoCtx
    /\ stopped = NoCtx
    /\ pools = TRUE
    /\ aborted = FALSE
    /\ env \in envs

InitWith(envs, thresholds, modes, budget) ==
    /\ InitBase(envs, thresholds, modes)
    /\ bitmap = [o \in {} |-> 0]
    /\ mem = {}
    /\ obs = [NoObs EXCEPT !.budget = budget]

\* The collection controller: contexts allocate objects of one size class
\* and call GC(), under every configuration.
EnvsGC ==
    { [gogc |-> -1, gctrace |-> 0, rate |-> 0],
      [gogc |-> 0, gctrace |-> 0, rate |-> 0],
      [gogc |-> 100, gctrace |-> 0, rate |-> 0],
      [gogc |-> 100, gctrace |-> 2, rate |-> 0] }

InitGC == InitWith(EnvsGC, {InitHeapAlloc, 65536},
                   {<<1, 0>>, <<0, 0>>, <<1, 1>>}, MaxCalls)

gogc(c) ==
    \/ gogc_enter(c)
    \/ gogc_lock(c)
    \/ gogc_read(c)
    \/ gogc_semacquire(c)
    \/ gogc_need(c)
    \/ gogc_stop(c)
    \/ gogc_clear(c)
    \/ gogc_gc(c)
    \/ gogc_done(c)
    \/ gogc_start(c)

NextGCtl ==
    \E c \in Ctx :
        \/ gomallocgc(c, 32, "nil", 0)
        \/ malloc_alloc(c)
        \/ malloc_gccheck(c)
        \/ gogc(c)
        \/ GC(c)
        \/ runtime_lock(c)
        \/ runtime_unlock(c)

SpecGC == InitGC /\ [][NextGCtl]_vars

\* One context allocating: requests of every path, with collection enabled
\* or not yet enabled.  A nested request is one the context makes while it is
\* inside the allocator.
First == CHOOSE c \in Ctx : \A d \in Ctx : c <= d

Requests ==
    { <<0, "nil", 0>>, <<0, "SP", 1>>,
      <<5, "nil", 1>>, <<8, "nil", 3>>,
      <<8, "P1", 0>>, <<16, "SP", 0>>, <<24, "PSP", 0>>, <<32, "GP", 0>>,
      <<32, "GU", 2>>, <<40, "nil", 0>>,
      <<32769, "nil", 1>>, <<32769, "nil", 0>> }

EnvsOne == { [gogc |-> 100, gctrace |-> 0, rate |-> 0] }

Init == InitWith(EnvsOne, {InitHeapAlloc, 65536}, {<<1, 0>>, <<0, 0>>},
                 MaxCalls)

Next ==
    \/ \E r \in Requests : gomallocgc(First, r[1], r[2], r[3])
    \/ malloc_tinyfit(First)
    \/ malloc_alloc(First)
    \/ malloc_gccheck(First)
    \/ gogc(First)

Spec == Init /\ [][Next]_vars

\* One cache serving tiny requests only.
TinySizes == 1..(maxTinySize - 1)

InitTiny == InitWith(EnvsOne, {65536}, {<<1, 0>>}, MaxAllocs)

NextTiny ==
    \/ \E n \in TinySizes : gomallocgc(First, n, "nil", flagNoScan)
    \/ malloc_tinyfit(First)
    \/ malloc_alloc(First)
    \/ malloc_gccheck(First)

SpecTiny == InitTiny /\ [][NextTiny]_vars

\* The bitmap writer: one context making scannable requests of every branch
\* (one word, two words, mask copy with and without a descriptor, in-place
\* unroll), with sizes that are and are not a whole number of words.
BitRequests ==
    { <<5, "nil", 0>>, <<8, "nil", 0>>, <<8, "P1", 0>>, <<8, "GP", 0>>,
      <<16, "nil", 0>>, <<16, "SP", 0>>, <<16, "P1", 0>>,
      <<20, "nil", 0>>, <<24, "PSP", 0>>, <<32, "SP", 0>>, <<32, "GU", 0>>,
      <<32, "GP", 0>>, <<40, "nil", 0>>, <<48, "PSP", 0>>,
      <<272, "nil", 0>>, <<272, "SP", 0>>, <<544, "GP", 0>>,
      <<24, "nil", 1>> }

\* The heap hands out fresh memory, whose fields read 0, or memory that held
\* objects before, whose fields still classify the old objects' words.
RecycledWords ==
    {p * (pageSize \div ptrSize) + w :
        p \in 0..(MaxCalls - 1), w \in 0..(SpanObjs * 72)}

Recycled == [o \in RecycledWords |-> bitsPointer * 4]

InitBits ==
    /\ InitBase(EnvsOne, {65536}, {<<1, 0>>})
    /\ bitmap \in {[o \in {} |-> 0], Recycled}
    /\ mem = {}
    /\ obs = [NoObs EXCEPT !.budget = MaxCalls]

NextBits ==
    \/ \E r \in BitRequests : gomallocgc(First, r[1], r[2], r[3])
    \/ malloc_alloc(First)
    \/ malloc_gccheck(First)

SpecBits == InitBits /\ [][NextBits]_vars

\* Concurrent allocation: every context makes scannable requests of one
\* word, two words and more, served from spans of its own.
SharedRequests ==
    { <<8, "P1", 0>>, <<16, "SP", 0>>, <<48, "PSP", 0>>, <<272, "nil", 0>> }

InitShared ==
    /\ InitBase(EnvsOne, {65536}, {<<1, 0>>})
    /\ bitmap \in {[o \in {} |-> 0], Recycled}
    /\ mem = {}
    /\ obs = [NoObs EXCEPT !.budget = MaxCalls, !.watch = TRUE]

NextShared ==
    \E c \in Ctx :
        \/ \E r \in SharedRequests : gomallocgc(c, r[1], r[2], r[3])
        \/ malloc_alloc(c)
        \/ malloc_gccheck(c)

SpecShared == InitShared /\ [][NextShared]_vars

\* Zeroing: one context allocating from fresh memory, which reads 0, or
\* from memory that held objects before, with or without flagNoZero.
ZeroRequests ==
    { <<8, "P1", 0>>, <<16, "SP", 0>>, <<24, "PSP", 0>>, <<48, "PSP", 0>>,
      <<32, "nil", flagNoScan>>, <<48, "PSP", flagNoZero>>,
      <<32, "nil", flagNoScan + flagNoZero>>, <<8, "nil", flagNoScan>>,
      <<40000, "nil", flagNoScan>> }

InitZero ==
    /\ InitBase(EnvsOne, {65536}, {<<1, 0>>})
    /\ bitmap = [o \in {} |-> 0]
    /\ mem \in {{}, RecycledWords}
    /\ obs = [NoObs EXCEPT !.budget = MaxCalls]

NextZero ==
    \/ \E r \in ZeroRequests : gomallocgc(First, r[1], r[2], r[3])
    \/ malloc_tinyfit(First)
    \/ malloc_alloc(First)
    \/ malloc_gccheck(First)

SpecZero == InitZero /\ [][NextZero]_vars

\* The sampler: one context allocating objects smaller and larger than the
\* sampling rate, with sampling on and off.
SampleRate == 20

EnvsRate == { [gogc |-> 100, gctrace |-> 0, rate |-> SampleRate],
              [gogc |-> 100, gctrace |-> 0, rate |-> 0] }

SampleRequests == { <<5, "nil", 1>>, <<16, "nil", 1>>, <<24, "nil", 1>> }

InitRate == InitWith(EnvsRate, {65536}, {<<1, 0>>}, MaxCalls)

NextRate ==
    \/ \E r \in SampleRequests : gomallocgc(First, r[1], r[2], r[3])
    \/ malloc_tinyfit(First)
    \/ malloc_alloc(First)
    \/ malloc_gccheck(First)

SpecRate == InitRate /\ [][NextRate]_vars

\* SetFinalizer: one context registering and clearing finalizers, with
\* objects and finalizers of several kinds, some carrying the flag bits
\* kindGCProg (64) and kindNoPointers (128).
ObjTypes == {nil, kindPtr, kindPtr + 128, 25, kindFunc}
FinTypes == {nil, kindFunc, kindFunc + 128, kindPtr}
ObjData == {arena_start, arena_start + maxTinySize}
FinData == {nil, 7}

InitFin == InitWith(EnvsOne, {65536}, {<<1, 0>>}, MaxCalls)

NextFin ==
    \/ \E typ \in ObjTypes, data \in ObjData, ftyp \in FinTypes,
          fdata \in FinData :
          SetFinalizer(First, typ, data, ftyp, fdata)
    \/ setFinalizer_m(First)

SpecFin == InitFin /\ [][NextFin]_vars

\* Size rounding: one size is drawn and goroundupsize is applied to it; for
\* a small size the object size gomallocgc selects is recorded with it.
ClassSizes == {class_to_size[k] : k \in Classes}

SizeInputs ==
    (1..1100)
        \cup {n \in {sz + d : sz \in ClassSizes, d \in {-1, 0, 1}} : n > 0}
        \cup {maxSmallSize + d : d \in 1..3}
        \cup {j * pageSize + d : j \in 5..7, d \in {-1, 0, 1}}
        \cup {WordMod - 2 * pageSize + d : d \in {-1, 0, 1}}
        \cup {WordMod - pageSize + d : d \in {-2, -1, 0, 1, 2}}
        \cup {WordMod - d : d \in 1..3}

InitSize ==
    /\ InitBase(EnvsOne, {65536}, {<<1, 0>>})
    /\ bitmap = [o \in {} |-> 0]
    /\ mem = {}
    /\ \E a \in SizeInputs : obs = [NoObs EXCEPT !.arg = a]

roundupsize(c) ==
    /\ pc[c] = "idle"
    /\ obs.rounded = -1
    /\ obs' = [obs EXCEPT
           !.rounded = goroundupsize(obs.arg),
           !.msize = IF obs.arg <= maxSmallSize THEN SmallSize(obs.arg)
                     ELSE -1]
    /\ UNCHANGED <<pc, frame, mvars, cachevars, heapvars, statvars, gcvars,
                   cfgvars, aborted>>

NextSize == roundupsize(First)

SpecSize == InitSize /\ [][NextSize]_vars

\* ------------------------------------------------- the collection controller
Has(seq, e) == \E j \in DOMAIN seq : seq[j] = e
Last(seq) == seq[Len(seq)]

\* The context holds worldsema: it is between semacquire and semrelease.
Holds(c) ==
    pc[c] \in {"gogc_need", "gogc_stop", "gogc_clear", "gogc_gc", "gogc_done"}

\* The gogc call of context c has returned by one of the tests that precede
\* the semaphore.
ReturnedEarly(c) ==
    /\ obs.steps[c] # <<>>
    /\ Last(obs.steps[c]) \in {"disabled", "locked", "panicking", "off"}

\* The gogc call of context c has returned.
Returned(c) == pc[c] = "idle" /\ obs.force[c] >= 0 /\ obs.steps[c] # <<>>

\* C1 (as claimed): of the contexts that observed heap_alloc >= next_gc and
\* called gogc(0) concurrently, only the one that won worldsema executes the
\* collection cycle; a context that lost the race executes none.
C1_OnlyWinnerCollects ==
    \A c \in Ctx :
        (obs.force[c] = 0 /\ obs.lost[c]) => obs.eager[c] = <<>>

\* C1 (amended): at most one context holds worldsema, and a context that
\* called gogc(0) executes the collection cycle exactly when heap_alloc >=
\* next_gc still holds at the moment it has acquired worldsema; otherwise it
\* returns without executing it.
C1_CollectsIffStillDue ==
    /\ Cardinality({c \in Ctx : Holds(c)}) <= 1
    /\ \A c \in Ctx :
          obs.force[c] = 0 =>
              /\ obs.eager[c] # <<>> => obs.recheck[c] = "ge"
              /\ (Returned(c) /\ obs.recheck[c] = "ge") =>
                     Len(obs.eager[c]) = Cycles(env.gctrace)
              /\ (Returned(c) /\ obs.recheck[c] = "lt") =>
                     Last(obs.steps[c]) = "notneeded"

\* C1 witness: two contexts raced, the winner collected and the loser found
\* the heap below the threshold and returned without collecting.
C1_Witness ==
    \E c, d \in Ctx :
        /\ c # d
        /\ obs.force[c] = 0 /\ obs.force[d] = 0
        /\ obs.lost[d] /\ Returned(d) /\ obs.recheck[d] = "lt"
        /\ obs.eager[d] = <<>>
        /\ Returned(c) /\ obs.eager[c] # <<>>

\* C2 (as claimed): a context that has reached the acquisition of worldsema
\* in gogc(0) never waits there: it can always take its next step.
C2_NeverWaits ==
    \A c \in Ctx :
        (pc[c] = "gogc_sema" /\ frame[c].force = 0 /\ CanRun(c))
            => ENABLED gogc_semacquire(c)

\* C2 (amended): the acquisition blocks.  worldsema is never held by two
\* contexts, and a context that lost the race returns from gogc(0) only
\* after it has acquired worldsema itself; it then returns without collecting
\* if it finds heap_alloc < next_gc.
C2_LoserWaitsThenAcquires ==
    /\ worldsema = 1 - Cardinality({c \in Ctx : Holds(c)})
    /\ \A c \in Ctx :
          (obs.force[c] = 0 /\ Returned(c) /\ ~ReturnedEarly(c)) =>
              /\ obs.steps[c][1] = "semacquire"
              /\ obs.recheck[c] = "lt" => obs.eager[c] = <<>>

\* C2 witness: a context is blocked at semacquire while another context
\* holds worldsema.
C2_Witness ==
    \E c, d \in Ctx :
        /\ c # d
        /\ pc[c] = "gogc_sema" /\ frame[c].force = 0
        /\ Holds(d)
        /\ ~ENABLED gogc_semacquire(c)

\* C3: the collection cycle runs only in the context that holds worldsema
\* and only while the world is stopped by it; nobody else is inside the
\* allocator or holds a lock meanwhile; the world is restarted only after
\* every cycle of the trigger has returned; one context collects at a time.
C3_CollectsOnlyWhileStopped ==
    /\ Cardinality({c \in Ctx : pc[c] \in {"gogc_clear", "gogc_gc"}}) <= 1
    /\ \A c \in Ctx :
          /\ pc[c] \in {"gogc_clear", "gogc_gc"} =>
                /\ stopped = c
                /\ worldsema = 0
                /\ gcing[c] = 1
                /\ \A d \in Ctx \ {c} : locks[d] = 0 /\ mallocing[d] = 0
          /\ pc[c] = "gogc_gc" => frame[c].i < frame[c].n
          /\ Has(obs.steps[c], "starttheworld") =>
                Len(obs.eager[c]) = Cycles(env.gctrace)

\* C3 witness: a context is between the two cycles of one trigger while
\* another context waits for worldsema.
C3_Witness ==
    \E c, d \in Ctx :
        /\ c # d
        /\ pc[c] = "gogc_gc" /\ frame[c].i = 1 /\ frame[c].n = 2
        /\ pc[d] = "gogc_sema"

\* C4 (as claimed): a collecting gogc call releases worldsema only after it
\* has restarted the world.
C4_ReleaseAfterRestart ==
    \A c \in Ctx :
        (obs.eager[c] # <<>> /\ Has(obs.steps[c], "semrelease"))
            => Has(obs.steps[c], "starttheworld")

\* The steps of a collecting gogc call, in order.
CollectSteps(n) ==
    <<"semacquire", "stoptheworld", "clearpools">>
        \o [j \in 1..n |-> "gc_m"]
        \o <<"semrelease", "starttheworld", "collected">>

IsPrefix(s, t) ==
    Len(s) <= Len(t) /\ \A j \in DOMAIN s : s[j] = t[j]

\* C4 (amended): a collecting gogc call stops the world, clears the pools,
\* runs the collection cycle, releases worldsema and only then restarts the
\* world: worldsema is released while the world is still stopped.
C4_ReleaseBeforeRestart ==
    \A c \in Ctx :
        /\ Has(obs.steps[c], "stoptheworld") =>
              IsPrefix(obs.steps[c], CollectSteps(Cycles(env.gctrace)))
        /\ pc[c] \in {"gogc_gc", "gogc_done"} =>
              /\ stopped = c /\ worldsema = 0
              /\ \A d \in Ctx : tiny[d] = nil /\ tinysize[d] = 0
        /\ pc[c] = "gogc_start" =>
              /\ stopped = c
              /\ worldsema = 1
              /\ gcing[c] = 0

\* C4 witness: worldsema has been released and the world is still stopped.
C4_Witness ==
    \E c \in Ctx :
        /\ pc[c] = "gogc_start"
        /\ Last(obs.steps[c]) = "semrelease"
        /\ worldsema = 1
        /\ stopped = c

\* C5 (as claimed): with a negative GC percentage gogc(0) never collects,
\* and a forced call that passed the other tests does collect.
C5_ForcedCollectsWhenOff ==
    env.gogc < 0 =>
        \A c \in Ctx :
            /\ obs.force[c] = 0 => obs.eager[c] = <<>>
            /\ (obs.force[c] = 2 /\ Returned(c)
                    /\ Last(obs.steps[c]) \notin
                           {"disabled", "locked", "panicking"})
                  => obs.eager[c] # <<>>

\* C5 (amended): with a negative GC percentage no gogc call collects,
\* forced or not: every call returns before it acquires worldsema.
C5_NothingCollectsWhenOff ==
    env.gogc < 0 =>
        /\ worldsema = 1
        /\ stopped = NoCtx
        /\ \A c \in Ctx :
              /\ obs.eager[c] = <<>>
              /\ ~Has(obs.steps[c], "semacquire")
              /\ pc[c] \notin {"gogc_sema", "gogc_need", "gogc_stop"}

\* C5 witness: a forced call has returned at the percentage test.
C5_Witness ==
    \E c \in Ctx :
        /\ env.gogc < 0
        /\ obs.force[c] = 2
        /\ Returned(c)
        /\ Last(obs.steps[c]) = "off"

\* C6: a forced call made with collection enabled, no locks held, not
\* panicking and a non-negative percentage has, when it returns, run every
\* cycle with the eager flag 1, released worldsema and restarted the world,
\* whatever heap_alloc and next_gc were; gogc(0) passes the eager flag 0.
C6_ForcedCollectsEagerly ==
    \A c \in Ctx :
        /\ (obs.force[c] = 2 /\ Returned(c) /\ enablegc # 0 /\ panicking = 0
                /\ env.gogc >= 0 /\ Last(obs.steps[c]) # "locked")
              => /\ obs.steps[c] = CollectSteps(Cycles(env.gctrace))
                 /\ obs.eager[c] = [j \in 1..Cycles(env.gctrace) |-> 1]
                 /\ stopped # c
                 /\ gcing[c] = 0
        /\ obs.force[c] = 0 => \A j \in DOMAIN obs.eager[c] : obs.eager[c][j] = 0
        /\ obs.force[c] = 2 => \A j \in DOMAIN obs.eager[c] : obs.eager[c][j] = 1

\* C6 witness: a forced call has collected although the heap was below the
\* threshold.
C6_Witness ==
    \E c \in Ctx :
        /\ obs.force[c] = 2
        /\ Returned(c)
        /\ obs.recheck[c] = "lt"
        /\ Last(obs.steps[c]) = "collected"
        /\ obs.eager[c] # <<>>

\* ------------------------------------------------------------ the allocator
\* The last gomallocgc call of context c has returned.
Completed(c) == pc[c] = "idle" /\ obs.path[c] # "none"

\* The paths that reach the comparison of line 309.
ComparedPaths == {"tinynew", "small", "large"}

\* C7 (as claimed): every gomallocgc call that has returned, whichever path
\* served it, has compared heap_alloc with next_gc before it returned and
\* has called gogc(0) exactly when heap_alloc >= next_gc.
C7_EveryReturnCompares ==
    \A c \in Ctx :
        Completed(c) =>
            /\ obs.cmp[c] # "none"
            /\ obs.trig[c] <=> obs.cmp[c] = "ge"

\* C7 (amended): a call served by a fresh tiny block, a size class or the
\* large path compares heap_alloc with next_gc before it returns and calls
\* gogc(0) exactly when heap_alloc >= next_gc; a zero-size call and a call
\* that fits the current tiny block return without the comparison and
\* never call gogc.
C7_FreshAllocationCompares ==
    \A c \in Ctx :
        /\ Completed(c) =>
              IF obs.path[c] \in ComparedPaths
              THEN /\ obs.cmp[c] # "none"
                   /\ obs.trig[c] <=> obs.cmp[c] = "ge"
              ELSE /\ obs.path[c] \in {"zero", "tinyfit"}
                   /\ obs.cmp[c] = "none"
                   /\ ~obs.trig[c]
        /\ (pc[c] \notin {"idle", "malloc", "gccheck", "throw"}
                /\ frame[c].caller = "gomallocgc") =>
              /\ obs.path[c] \in ComparedPaths
              /\ obs.trig[c] /\ obs.cmp[c] = "ge"
              /\ frame[c].force = 0

\* C7 witness: a call that fits the current tiny block has returned with
\* heap_alloc >= next_gc and without calling gogc.
C7_Witness ==
    \E c \in Ctx :
        /\ Completed(c)
        /\ obs.path[c] = "tinyfit"
        /\ heap_alloc >= next_gc
        /\ ~obs.trig[c]
        /\ obs.cmp[c] = "none"

\* Context c makes a gomallocgc call in this step.
CallStep(c) == obs'.ncalls[c] = obs.ncalls[c] + 1

\* C8 (as claimed): every gomallocgc call made by a context whose
\* mp.mallocing is already set aborts and changes no cache, span, bitmap
\* or counter state.
C8_BusyCallAlwaysAborts ==
    [][\A c \in Ctx :
          (CallStep(c) /\ mallocing[c] # 0) =>
              /\ aborted'
              /\ UNCHANGED <<cachevars, heapvars, statvars>>]_vars

\* C8 (amended): a call of non-zero size made by a context whose
\* mp.mallocing is already set aborts; a zero-size call made by such a
\* context returns zeroObject and does not abort.  Neither changes cache,
\* span, bitmap or counter state, and a context that has aborted takes no
\* further step.
C8_BusyNonZeroCallAborts ==
    [][\A c \in Ctx :
          /\ (CallStep(c) /\ mallocing[c] # 0) =>
                /\ UNCHANGED <<cachevars, heapvars, statvars>>
                /\ IF obs'.req[c] > 0
                   THEN /\ aborted'
                        /\ pc'[c] = "throw"
                        /\ locks'[c] = locks[c] + 1
                   ELSE /\ aborted' = aborted
                        /\ obs'.nret[c] = zeroObject
                        /\ UNCHANGED <<pc, mvars>>
          /\ pc[c] = "throw" =>
                /\ pc'[c] = "throw"
                /\ UNCHANGED <<tiny[c], tinysize[c], alloc[c], sref[c],
                               local_cachealloc[c], next_sample[c]>>]_vars

\* C8 witness: a context inside the allocator has made a zero-size call,
\* which returned zeroObject, and is still inside the allocator.
C8_Witness ==
    \E c \in Ctx :
        /\ pc[c] = "malloc"
        /\ mallocing[c] = 1
        /\ obs.nested[c] = "zero"
        /\ obs.nret[c] = zeroObject
        /\ ~aborted

\* The 16-byte block an address lies in.
BlockOf(x) == x - (x % maxTinySize)

Disjoint(r, q) == r[1] + r[2] <= q[1] \/ q[1] + q[2] <= r[1]

\* C9: every range returned to a tiny request lies inside one 16-byte block
\* handed out for tiny requests, is aligned to 8, 4 or 2 bytes when its size
\* is a multiple of 8, 4 or 2, and is disjoint from every range returned
\* before it; requests of 3, 5 and 8 bytes made on a cache with no current
\* block are served from one block.
C9_TinyRangesPacked ==
    LET rs == obs.ranges
    IN  /\ \A b \in obs.blocks : b % maxTinySize = 0
        /\ \A j \in DOMAIN rs :
              LET x == rs[j][1]
                  n == rs[j][2]
              IN  /\ BlockOf(x) \in obs.blocks
                  /\ x + n <= BlockOf(x) + maxTinySize
                  /\ n % 8 = 0 => x % 8 = 0
                  /\ n % 4 = 0 => x % 4 = 0
                  /\ n % 2 = 0 => x % 2 = 0
                  /\ \A i \in 1..(j - 1) : Disjoint(rs[i], rs[j])
        /\ (Len(rs) >= 3 /\ rs[1][2] = 3 /\ rs[2][2] = 5 /\ rs[3][2] = 8) =>
              /\ BlockOf(rs[2][1]) = BlockOf(rs[1][1])
              /\ BlockOf(rs[3][1]) = BlockOf(rs[1][1])

\* C9 witness: requests of 3, 5 and 8 bytes have been served, the third
\* after 8-byte alignment, and the block is full.
C9_Witness ==
    /\ Len(obs.ranges) = 3
    /\ obs.ranges[1][2] = 3 /\ obs.ranges[2][2] = 5 /\ obs.ranges[3][2] = 8
    /\ obs.ranges[3][1] = obs.ranges[1][1] + 8
    /\ tinysize[First] = 0
    /\ Cardinality(obs.blocks) = 1

\* C10: a gomallocgc call of size 0 returns zeroObject, whatever the type,
\* the flags and the state, and changes nothing: cache, tiny block, spans,
\* bitmap, sampling counter, mp.mallocing and mp.locks are as before.
C10_ZeroSizeChangesNothing ==
    [][\A c \in Ctx :
          (CallStep(c) /\ obs'.req[c] = 0) =>
              /\ IF pc[c] = "idle"
                 THEN obs'.ret[c] = zeroObject /\ obs'.path[c] = "zero"
                 ELSE obs'.nret[c] = zeroObject
              /\ UNCHANGED <<pc, frame, mvars, cachevars, heapvars,
                             statvars, gcvars, aborted>>]_vars

\* C10 witness: a zero-size call has returned zeroObject to a context whose
\* cache holds a tiny block and free objects.
C10_Witness ==
    \E c \in Ctx :
        /\ Completed(c)
        /\ obs.path[c] = "zero"
        /\ obs.ret[c] = zeroObject
        /\ tiny[c] # nil
        /\ alloc[c][tinySizeClass] # <<>>
        /\ bitmap # <<>>

\* ------------------------------------------------------------ size rounding
\* goroundupsize has been applied to the size drawn.
Rounded == obs.rounded # -1

\* The size is small: the size-class lookup serves it.
SmallArg == obs.arg > 0 /\ obs.arg <= maxSmallSize

\* For a small size the lookup yields the smallest class size that is >= the
\* size, and gomallocgc and goroundupsize agree on it.
SmallRounding ==
    (Rounded /\ SmallArg) =>
        /\ obs.rounded \in ClassSizes
        /\ obs.rounded >= obs.arg
        /\ \A sz \in ClassSizes : sz >= obs.arg => sz >= obs.rounded
        /\ obs.msize = obs.rounded

\* The result is the size rounded up to a page multiple.
PageRounded ==
    /\ obs.rounded % pageSize = 0
    /\ obs.rounded >= obs.arg
    /\ obs.rounded - obs.arg < pageSize

\* C11 (as claimed): for 0 < S <= maxSmallSize the lookup yields the smallest
\* class size >= S and gomallocgc and goroundupsize agree; for every larger
\* S goroundupsize returns S rounded up to a page multiple.
C11_LargeAlwaysPageRounded ==
    /\ SmallRounding
    /\ (Rounded /\ obs.arg > maxSmallSize) => PageRounded

\* C11 (amended): for 0 < S <= maxSmallSize the lookup yields the smallest
\* class size >= S and gomallocgc and goroundupsize agree; for a larger S
\* goroundupsize returns S rounded up to a page multiple when S + pageSize
\* does not overflow, and S itself, unrounded, when it does; the result is
\* never smaller than S.
C11_RoundsUpUnlessOverflow ==
    /\ SmallRounding
    /\ (Rounded /\ obs.arg > maxSmallSize) =>
          /\ IF obs.arg + pageSize < WordMod
             THEN PageRounded
             ELSE obs.rounded = obs.arg
          /\ obs.rounded >= obs.arg

\* C11 witness: a size whose page rounding would overflow has been returned
\* as it is, not a page multiple.
C11_Witness ==
    /\ Rounded
    /\ obs.arg = WordMod - 1
    /\ obs.rounded = obs.arg
    /\ obs.rounded % pageSize # 0

\* ------------------------------------------------------------ the bitmap
\* The pointer classification and the boundary bit of a 4-bit field.
Classification(f) == (f \div 4) % 4
Boundary(f) == f % 2

\* The last allocation of the context has returned and was scannable.
Scanned(c) == Completed(c) /\ obs.last.x # nil /\ ~NoScan(obs.last.flags)

\* C12: after a scannable allocation whose rounded size is one machine word
\* has returned, the field of that word is classified pointer and has its
\* boundary bit set, whatever type descriptor was supplied.
C12_OneWordIsPointer ==
    (Scanned(First) /\ obs.last.size = ptrSize) =>
        LET f == Field(bitmap, WordOff(obs.last.x))
        IN  /\ Classification(f) = bitsPointer
            /\ Boundary(f) = 1

\* C12 witness: a one-word object has been returned to a request that
\* supplied a GC-program type.
C12_Witness ==
    /\ Scanned(First)
    /\ obs.last.size = ptrSize
    /\ obs.last.typ = "GP"
    /\ Field(bitmap, WordOff(obs.last.x)) = bitsPointer * 4 + bitBoundary

\* The words the requested size covers, the last one possibly in part.
ReqWords(size0) == (size0 + ptrSize - 1) \div ptrSize

\* The field of word w of the last object.
LastField(w) == Field(bitmap, WordOff(obs.last.x) + w)

\* The rounded size leaves at least one whole word after the request.
HasExcessWord == obs.last.size - obs.last.size0 >= ptrSize

MaskDescribed ==
    /\ Scanned(First)
    /\ obs.last.size >= 2 * ptrSize
    /\ ~(HasMask(obs.last.typ, obs.last.size) /\ UnrollInPlace(obs.last.typ))

\* The classification the type's layout gives word w of an object.
Layout(t, w) ==
    TypeTable[t].ptrs[(w % Len(TypeTable[t].ptrs)) + 1]

\* C14: the fields read back after a scannable allocation of two words or
\* more equal the encoding of the layout: word w of the requested size is
\* classified as the type's mask classifies word w modulo the type's size
\* in words, for arrays and for types of an odd number of words too; with
\* no usable descriptor every word is classified pointer; the boundary bit
\* is set on the first word's field and on no other field of the object.
C14_FieldsEqualLayout ==
    MaskDescribed =>
        /\ \A w \in 0..(ReqWords(obs.last.size0) - 1) :
              Classification(LastField(w)) =
                  IF HasMask(obs.last.typ, obs.last.size)
                  THEN Layout(obs.last.typ, w)
                  ELSE bitsPointer
        /\ Boundary(LastField(0)) = 1
        /\ \A w \in 1..(obs.last.size \div ptrSize - 1) :
              Boundary(LastField(w)) = 0

\* C14 witness: an array of two elements of a three-word type has been
\* written: pointer, scalar, pointer, twice.
C14_Witness ==
    /\ MaskDescribed
    /\ obs.last.typ = "PSP" /\ obs.last.size0 = 48
    /\ [w \in 0..5 |-> Classification(LastField(w))] =
           [w \in 0..5 |-> IF w % 3 = 1 THEN bitsScalar ELSE bitsPointer]
    /\ LastField(0) = bitsPointer * 4 + bitBoundary

\* ------------------------------------------------------------ SetFinalizer
\* The arguments of a SetFinalizer call are acceptable: the object's type is
\* of pointer kind and the finalizer is nil or of func kind.
Acceptable(r) ==
    /\ r[1] # nil
    /\ r[1] % 64 = kindPtr
    /\ r[3] = nil \/ r[3] % 64 = kindFunc

\* The SetFinalizer calls that are over.
FinCallsOver ==
    IF pc[First] = "setFinalizer_m"
    THEN SubSeq(obs.finreq, 1, Len(obs.finreq) - 1)
    ELSE obs.finreq

\* C15: SetFinalizer aborts, forwarding nothing, when the object's type is
\* nil or not of pointer kind or when the finalizer is non-nil and not of
\* func kind; every other call, a call with a nil finalizer included,
\* forwards exactly its four arguments to setFinalizer_m once and leaves
\* the lock count as it found it.
C15_ForwardsOrAborts ==
    /\ obs.fin = SelectSeq(FinCallsOver, Acceptable)
    /\ aborted <=> \E j \in DOMAIN obs.finreq : ~Acceptable(obs.finreq[j])
    /\ pc[First] = "idle" => locks[First] = 0
    /\ pc[First] = "setFinalizer_m" =>
          /\ locks[First] = 1
          /\ frame[First].ptrarg = Last(obs.finreq)

\* C15 witness: a finalizer has been registered and then cleared with a nil
\* finalizer; both calls were forwarded.
C15_Witness ==
    /\ pc[First] = "idle"
    /\ Len(obs.fin) = 2
    /\ obs.fin[1][3] = kindFunc + 128
    /\ obs.fin[2][3] = nil /\ obs.fin[2][4] = nil
    /\ obs.fin[1][2] = obs.fin[2][2]
    /\ ~aborted

\* ------------------------------------------------------------- the sampler
\* An allocation of the context has reached the sampling step.
ReachedSampling == obs.last.x # nil

\* The counter after the sampling step of the last allocation.
CounterAfter == next_sample[First]

\* What the sampling step does whether or not the interval is recomputed.
SamplingRule ==
    /\ \A c \in Ctx : next_sample[c] >= 0
    /\ ReachedSampling =>
          IF env.rate > 0
          THEN /\ obs.last.sampled <=>
                      \/ obs.last.size >= env.rate
                      \/ obs.last.size >= obs.last.ns0
               /\ ~obs.last.sampled =>
                      CounterAfter = obs.last.ns0 - obs.last.size
          ELSE /\ ~obs.last.sampled
               /\ CounterAfter = obs.last.ns0

\* C16 (as claimed): a sample is recorded exactly when S >= R or S >=
\* next_sample; without a sample the counter decreases by S; whenever a
\* sample is recorded the next interval is recomputed; next_sample is never
\* negative; with R = 0 nothing is recorded and the counter is unchanged.
C16_EverySampleRecomputes ==
    /\ SamplingRule
    /\ (ReachedSampling /\ obs.last.sampled) => obs.last.redrawn

\* C16 (amended): as claimed, except that the next interval is recomputed
\* only when a sample is recorded for an allocation with S < R; a sample
\* recorded for an allocation with S >= R leaves next_sample unchanged.
C16_SmallSampleRecomputes ==
    /\ SamplingRule
    /\ ReachedSampling =>
          /\ obs.last.redrawn <=>
                 (obs.last.sampled /\ obs.last.size < env.rate)
          /\ obs.last.redrawn => CounterAfter \in 0..(2 * env.rate - 1)
          /\ (obs.last.sampled /\ ~obs.last.redrawn) =>
                 CounterAfter = obs.last.ns0

\* C16 witness: with a positive counter an allocation at least as large as
\* the rate has been sampled and the counter is as it was.
C16_Witness ==
    /\ ReachedSampling
    /\ pc[First] = "idle"
    /\ env.rate > 0
    /\ obs.last.size >= env.rate
    /\ obs.last.sampled
    /\ obs.last.ns0 > 0
    /\ CounterAfter = obs.last.ns0

\* ------------------------------------------------- concurrent bitmap writes
\* The page whose fields bitmap word w holds.
PageOfWord(w) == (w * wordsPerBitmapWord) \div (pageSize \div ptrSize)

\* C17 (as claimed): the bitmap writes of an allocation touch only fields
\* of words inside the object's rounded extent; no two contexts touch the
\* same field (here: the same bitmap word, hence no common field) and no
\* allocation changes the bits of another object.
C17_TouchesOnlyExtent ==
    /\ \A c \in Ctx : obs.stray[c] = {} /\ obs.altered[c] = {}
    /\ \A c, d \in Ctx : c # d => obs.touched[c] \cap obs.touched[d] = {}

\* C17 (amended): the bitmap writes of an allocation change only fields of
\* words inside the object's rounded extent, and for an object of two words
\* or more they touch no other field; for a one-word object the pointer
\* bits are or-ed into the whole bitmap word, which holds the fields of 16
\* heap words of the same span.  Every field touched lies in a span owned
\* by the allocating context, so no two contexts touch the same bitmap word,
\* hence no common field, and no allocation changes the bits of another
\* object.
C17_ChangesOnlyExtent ==
    /\ \A c \in Ctx :
          /\ obs.altered[c] = {}
          /\ obs.strayMulti[c] = {}
          /\ \A w \in obs.touched[c] : PageOfWord(w) \in obs.pages[c]
    /\ \A c, d \in Ctx :
          c # d =>
              /\ obs.pages[c] \cap obs.pages[d] = {}
              /\ obs.touched[c] \cap obs.touched[d] = {}

\* C17 witness: two contexts have each written the bitmap, one of them for
\* a one-word object whose bitmap word holds fields of other objects.
C17_Witness ==
    \E c, d \in Ctx :
        /\ c # d
        /\ obs.stray[c] # {}
        /\ obs.touched[d] # {}
        /\ pc[c] = "idle" /\ pc[d] = "idle"

\* ---------------------------------------------------- reading the percentage
\* C18: from gcpercent = gcpercentUnknown, under any interleaving of gogc
\* calls, the configuration is read exactly once, by a context holding
\* mheap_.lock; every later call uses the cached value and reads nothing.
C18_ReadOnceUnderLock ==
    /\ Len(obs.reads) <= 1
    /\ Len(obs.reads) = 1 <=> gcpercent # gcpercentUnknown
    /\ \A i \in 1..Len(obs.reads) : obs.reads[i].holder = obs.reads[i].by
    /\ gcpercent # gcpercentUnknown => gcpercent = env.gogc
    /\ \A c \in Ctx : pc[c] = "gogc_read" => heaplock = c

\* C18 witness: two contexts found the percentage unknown and each took
\* mheap_.lock in turn; the configuration has been read once.
C18_Witness ==
    /\ Cardinality(obs.tested) >= 2
    /\ Len(obs.reads) = 1
    /\ \A c \in Ctx : pc[c] \notin {"gogc_lock", "gogc_read"}

\* ------------------------------------------------------------------ zeroing
\* The last allocation took the size-class path with zeroing required.
ZeroedSmall ==
    /\ obs.last.x # nil
    /\ obs.last.size0 <= maxSmallSize
    /\ ~IsTiny(obs.last.size0, obs.last.flags)
    /\ ~NoZero(obs.last.flags)

\* The words of the last object that are not 0.
LastNonZero == mem \cap Extent(obs.last.x, obs.last.size)

\* C19 (as claimed): on the size-class path with zeroing required, every
\* object larger than one word whose second word is not 0 is cleared over
\* its whole rounded size, clearing is skipped only when the second word is
\* 0, and the link in the first word is always cleared.
C19_ClearedAboveOneWord ==
    ZeroedSmall =>
        /\ WordOff(obs.last.x) \notin mem
        /\ (obs.last.size > ptrSize /\ obs.last.second # 0) =>
               (obs.last.cleared /\ LastNonZero = {})
        /\ ~obs.last.cleared => obs.last.second = 0

\* C19 (amended): on the size-class path with zeroing required, every
\* object larger than two words whose second word is not 0 is cleared over
\* its whole rounded size; clearing is skipped when the second word is 0 or
\* the object has at most two words, and then only the first word is
\* written; the link in the first word is always cleared.
C19_ClearedAboveTwoWords ==
    ZeroedSmall =>
        /\ WordOff(obs.last.x) \notin mem
        /\ (obs.last.size > 2 * ptrSize /\ obs.last.second # 0) =>
               (obs.last.cleared /\ LastNonZero = {})
        /\ ~obs.last.cleared =>
               /\ obs.last.second = 0 \/ obs.last.size <= 2 * ptrSize
               /\ LastNonZero = obs.last.stale \ {WordOff(obs.last.x)}
        /\ obs.last.cleared =>
               (obs.last.size > 2 * ptrSize /\ obs.last.second # 0)

\* C19 witness: an object of more than two words with a second word that
\* is not 0 has been cleared and returned.
C19_Witness ==
    /\ ZeroedSmall
    /\ obs.last.cleared
    /\ obs.last.second # 0
    /\ Cardinality(obs.last.stale) > 2
    /\ LastNonZero = {}
    /\ \E c \in Ctx : pc[c] = "idle" /\ obs.ret[c] = obs.last.x

\* ------------------------------------------------------ the guard at return
\* Context c is outside gomallocgc or past its releasem.
PastRelease(c) == pc[c] \in {"idle", "gccheck"}

\* C20: at every return of gomallocgc, by whichever path, mp.mallocing is 0
\* and every acquirem has been matched by a releasem, so the next
\* allocation of a context that has completed its allocations does not
\* abort.
C20_GuardReleasedAtReturn ==
    /\ [](\A c \in Ctx :
             PastRelease(c) => (mallocing[c] = 0 /\ locks[c] = 0))
    /\ [][\A c \in Ctx : pc[c] = "idle" => pc'[c] # "throw"]_vars

\* C20 witness: a context has completed two allocations, the second one
\* started after the first had returned.
C20_Witness ==
    \E c \in Ctx :
        /\ obs.ncalls[c] = 2
        /\ obs.nested[c] = "none"
        /\ pc[c] = "idle"
        /\ obs.path[c] \in {"tinyfit", "tinynew", "small", "large"}
        /\ mallocing[c] = 0
        /\ ~aborted

====
